---- MODULE Spec2Model ----
(***************************************************************************)
(* Model of job-hunt-agent-new.py: the Streamlit script main(), the        *)
(* session state it keeps across reruns, and the two orchestrators         *)
(* JobHuntingAgent.find_jobs and JobHuntingAgent.get_industry_trends with  *)
(* their calls to the extraction provider (firecrawl.extract) and the      *)
(* language model (agent.run).                                             *)
(*                                                                         *)
(* Text is modelled as a sequence of tokens (words, and " " and "," where  *)
(* the code splits or replaces on them); the Python test `m in s` is the   *)
(* contiguous-subsequence test Contains(s, m).  A Python value that may be *)
(* a string or None is a record [isStr, text].                             *)
(***************************************************************************)
EXTENDS Integers, Sequences, FiniteSets, TLC

VARIABLES
    env,              \* os.getenv values, fixed for the session
    widgets,          \* widget values Streamlit keeps across reruns
    session_state,    \* st.session_state
    pc,               \* position of the running script ("idle": run ended)
    button,           \* st.button(...) of the current script run
    firecrawl_key,    \* main's local firecrawl_key after line 296
    openai_key,       \* main's local openai_key after line 297
    display,          \* elements rendered by the current script run
    calls,            \* provider calls made by the current script run
    jobs,             \* find_jobs' local `jobs` handed to agent.run
    industries,       \* get_industry_trends' local `industries`
    job_results,      \* main's local job_results
    industry_trends,  \* main's local industry_trends
    raw_response,     \* the running orchestrator's local raw_response
    exc,              \* the exception bound by the orchestrator's except clause
    fj_path,          \* return statement find_jobs left through
    it_path           \* return statement get_industry_trends left through

vars == <<env, widgets, session_state, pc, button, firecrawl_key, openai_key,
          display, calls, jobs, industries, job_results, industry_trends,
          raw_response, exc, fj_path, it_path>>

(***************************************************************************)
(* Bounds                                                                  *)
(***************************************************************************)
MaxPostings == 2

(***************************************************************************)
(* Text                                                                    *)
(***************************************************************************)
Str(s) == [isStr |-> TRUE, text |-> s]

None == [isStr |-> FALSE, text |-> <<>>]

Contains(s, m) ==
    \E i \in 0..(Len(s) - Len(m)) : SubSeq(s, i + 1, i + Len(m)) = m

LowerMap ==
    [t \in {"Software", "Engineer", "Bangalore", "Information", "Technology",
            "Marketing", "Website", "API", "Invalid", "Rate", "NoneType"} |->
        CASE t = "Software" -> "software"
          [] t = "Engineer" -> "engineer"
          [] t = "Bangalore" -> "bangalore"
          [] t = "Information" -> "information"
          [] t = "Technology" -> "technology"
          [] t = "Marketing" -> "marketing"
          [] t = "Website" -> "website"
          [] t = "API" -> "api"
          [] t = "Invalid" -> "invalid"
          [] t = "Rate" -> "rate"
          [] t = "NoneType" -> "nonetype"]

Lower(s) ==
    [i \in 1..Len(s) |-> IF s[i] \in DOMAIN LowerMap THEN LowerMap[s[i]] ELSE s[i]]

Replace(s, old, new) ==
    [i \in 1..Len(s) |-> IF s[i] = old THEN new ELSE s[i]]

RECURSIVE Join(_, _)
Join(parts, sep) ==
    IF Len(parts) = 0 THEN <<>>
    ELSE IF Len(parts) = 1 THEN parts[1]
    ELSE parts[1] \o sep \o Join(Tail(parts), sep)

RECURSIVE Split(_, _)
Split(s, sep) ==
    IF \A i \in 1..Len(s) : s[i] # sep THEN <<s>>
    ELSE LET k == CHOOSE i \in 1..Len(s) :
                      s[i] = sep /\ \A j \in 1..(i - 1) : s[j] # sep
         IN <<SubSeq(s, 1, k - 1)>> \o Split(SubSeq(s, k + 1, Len(s)), sep)

RECURSIVE Strip(_)
Strip(s) ==
    IF Len(s) > 0 /\ s[1] = " " THEN Strip(Tail(s))
    ELSE IF Len(s) > 0 /\ s[Len(s)] = " " THEN Strip(SubSeq(s, 1, Len(s) - 1))
    ELSE s

(***************************************************************************)
(* Messages                                                                *)
(***************************************************************************)
Marker == <<"An", "error", "occurred">>

NoJobsMessage ==
    <<"No", "job", "listings", "found", "matching", "your", "criteria.",
      "Try", "adjusting", "your", "search", "parameters", "or", "try",
      "different", "job", "sites.">>

\* Faulty variant: the message leaves out str(e).
FindJobsErrorWithoutText(e) ==
    <<"An", "error", "occurred", "while", "searching", "for", "jobs.">>

FindJobsError(e) ==
    <<"An", "error", "occurred", "while", "searching", "for", "jobs:">> \o e
    \o <<"\n\n", "Please", "try", "again", "with", "different", "search",
         "parameters", "or", "check", "if", "the", "job", "sites", "are",
         "supported", "by", "Firecrawl.">>

NoTrendsMessage(job_category) ==
    <<"No", "industry", "trends", "data", "available", "for">> \o job_category
    \o <<".", "Try", "a", "different", "industry", "category.">>

\* Faulty variant: the message does not start with the marker main looks for.
TrendsErrorWithoutMarker(e) ==
    <<"Error", "while", "fetching", "industry", "trends:">> \o e

TrendsError(e) ==
    <<"An", "error", "occurred", "while", "fetching", "industry", "trends:">> \o e
    \o <<"\n\n", "Please", "try", "again", "with", "a", "different", "industry",
         "category", "or", "check", "if", "the", "sites", "are", "supported",
         "by", "Firecrawl.">>

(***************************************************************************)
(* Values of the environment, the widgets and the providers                *)
(***************************************************************************)
Unset == "<unset>"

ModelOptions == {"o3-mini", "gpt-4o-mini"}

EnvValues ==
    [FIRECRAWL_API_KEY : {Unset, "fc-env"},
     OPENAI_API_KEY : {Unset, "sk-env"},
     OPENAI_MODEL_ID : {Unset, "gpt-4o-mini"}]

FirecrawlKeyInputs == {"", "fc-ui"}

OpenaiKeyInputs == {"", "sk-ui"}

JobTitleInputs == {<<>>, <<"Software", " ", "Engineer">>}

LocationInputs == {<<>>, <<"Bangalore">>}

ExperienceInputs == {0, 2}

SkillsInputs == {<<>>, <<"Python", ",", " ", "SQL">>}

CategoryOptions == {<<"Information", " ", "Technology">>, <<"Marketing">>}

\* The records are opaque to the code: one representative posting or trend.
Postings == {"record"}

ListOf(items) == [isList |-> TRUE, items |-> items]

NullList == [isList |-> FALSE, items |-> <<>>]

ListValues ==
    {ListOf(l) : l \in UNION {[1..n -> Postings] : n \in 0..MaxPostings}}
    \cup {NullList}

\* A response of firecrawl.extract: whether it is a dict, whether it has the
\* keys 'success' and 'data', whether data is a mapping, and the one named
\* list the payload carries (dataKey = "" when it carries none).
ResponseShapes ==
    {r \in [isDict : BOOLEAN, hasSuccess : BOOLEAN, success : BOOLEAN,
            hasData : BOOLEAN, dataIsDict : BOOLEAN,
            dataKey : {"", "job_postings", "industry_trends"},
            list : ListValues] :
        /\ ~r.isDict => ~r.hasSuccess /\ ~r.hasData
        /\ ~r.hasSuccess => ~r.success
        /\ ~r.hasData => ~r.dataIsDict
        /\ ~r.dataIsDict => r.dataKey = ""
        /\ r.dataKey = "" => r.list = ListOf(<<>>)}

ExtractErrors ==
    {<<"Website", "is", "no", "longer", "supported">>, <<"Invalid", "API", "key">>}

RunErrors == {<<"Rate", "limit", "exceeded">>, <<"Invalid", "API", "key">>}

\* RunResponse.content: free text, or None when the model returned no text.
Contents ==
    {Str(<<"SELECTED", "JOB", "OPPORTUNITIES">>),
     Str(<<"Note:", "An", "error", "occurred", "while", "loading", "one", "listing.">>),
     None}

NoAgent ==
    [present |-> FALSE, firecrawl_api_key |-> Unset, openai_api_key |-> Unset,
     model_id |-> Unset]

(***************************************************************************)
(* Python helpers                                                          *)
(***************************************************************************)
Truthy(v) == v.isList /\ Len(v.items) > 0

Returned(v) == [raises |-> FALSE, text |-> <<>>, value |-> v]

Raised(e) == [raises |-> TRUE, text |-> e, value |-> NullList]

\* raw_response['data'].get(key, [])
DataGet(raw, key) ==
    IF ~raw.hasData THEN Raised(<<"'data'">>)
    ELSE IF ~raw.dataIsDict
    THEN Raised(<<"'NoneType'", "object", "has", "no", "attribute", "'get'">>)
    ELSE IF raw.dataKey = key THEN Returned(raw.list)
    ELSE Returned(ListOf(<<>>))

\* Faulty variant: tests that the key 'success' is present, not that it is true.
SucceededKeyPresent(raw) == raw.isDict /\ raw.hasSuccess

\* isinstance(raw_response, dict) and raw_response.get('success')
Succeeded(raw) == raw.isDict /\ raw.hasSuccess /\ raw.success

Getenv(name, default) == IF env[name] = Unset THEN default ELSE env[name]

Or(a, b) == IF a # "" THEN a ELSE b

ParseSkills(skills_input) ==
    IF skills_input # <<>>
    THEN LET parts == Split(skills_input, ",")
         IN [i \in 1..Len(parts) |-> Strip(parts[i])]
    ELSE <<>>

TokenLen ==
    [t \in {"Information", " ", "Technology", "Marketing"} |->
        CASE t = "Information" -> 11
          [] t = " " -> 1
          [] t = "Technology" -> 10
          [] t = "Marketing" -> 9]

RECURSIVE CharLen(_)
CharLen(s) == IF s = <<>> THEN 0 ELSE TokenLen[Head(s)] + CharLen(Tail(s))

El(w, text) == [w |-> w, text |-> text]

Call(api, fn, urls, prompt, list) ==
    [api |-> api, fn |-> fn, agent |-> session_state.job_agent, urls |-> urls,
     prompt |-> prompt, list |-> list]

Unassigned == [assigned |-> FALSE, r |-> CHOOSE r \in ResponseShapes : ~r.isDict]

Assigned(r) == [assigned |-> TRUE, r |-> r]

NoException == [caught |-> FALSE, text |-> <<>>]

Caught(e) == [caught |-> TRUE, text |-> e]

(***************************************************************************)
(* JobHuntingAgent.find_jobs                                               *)
(***************************************************************************)
FindJobsUrls(job_title, location) ==
    LET formatted_job_title == Replace(Lower(job_title), " ", "-")
        formatted_location == Replace(Lower(location), " ", "-")
    IN <<<<"https://www.naukri.com/">> \o formatted_job_title
             \o <<"-jobs-in-">> \o formatted_location,
         <<"https://www.indeed.com/jobs?q=">> \o formatted_job_title
             \o <<"&l=">> \o formatted_location,
         <<"https://www.monster.com/jobs/search/?q=">> \o formatted_job_title
             \o <<"&where=">> \o formatted_location>>

FindJobsCriteria(job_title, location, experience_years, skills) ==
    <<job_title, location, <<ToString(experience_years)>>, Join(skills, <<",", " ">>)>>

\* lines 102-105
ExtractedJobs(raw) ==
    IF Succeeded(raw) THEN DataGet(raw, "job_postings") ELSE Returned(ListOf(<<>>))

\* Faulty variant: `jobs is None` in place of `not jobs`.
NoJobsOnlyNone(v) == ~v.isList

\* line 109: `not jobs`
NoJobs(v) == ~Truthy(v)

\* lines 158-160
FindJobsExcept(e) ==
    /\ exc' = Caught(e)
    /\ job_results' = Str(FindJobsError(e))
    /\ fj_path' = "except"
    /\ pc' = "find_jobs_returned"
    /\ UNCHANGED jobs

\* lines 62-110: the extraction call and what find_jobs does with its outcome
FindJobsExtract ==
    /\ pc = "find_jobs"
    /\ LET skills == ParseSkills(widgets.skills_input)
           urls == FindJobsUrls(widgets.job_title, widgets.location)
           criteria == FindJobsCriteria(widgets.job_title, widgets.location,
                                        widgets.experience_years, skills)
       IN calls' = Append(calls, Call("extract", "find_jobs", urls, criteria, <<>>))
    /\ \/ \E e \in ExtractErrors :
            /\ raw_response' = Unassigned
            /\ FindJobsExcept(e)
       \/ \E raw \in ResponseShapes :
            /\ raw_response' = Assigned(raw)
            /\ LET got == ExtractedJobs(raw)
               IN IF got.raises THEN FindJobsExcept(got.text)
                  ELSE IF NoJobs(got.value)
                  THEN /\ job_results' = Str(NoJobsMessage)
                       /\ fj_path' = "no_results"
                       /\ pc' = "find_jobs_returned"
                       /\ UNCHANGED <<jobs, exc>>
                  ELSE /\ jobs' = got.value
                       /\ pc' = "find_jobs_run"
                       /\ UNCHANGED <<job_results, fj_path, exc>>
    /\ UNCHANGED <<env, widgets, session_state, button, firecrawl_key, openai_key,
                   display, industries, industry_trends, it_path>>

\* lines 112-157: the model call and the return of its content
FindJobsRun ==
    /\ pc = "find_jobs_run"
    /\ LET skills == ParseSkills(widgets.skills_input)
           criteria == FindJobsCriteria(widgets.job_title, widgets.location,
                                        widgets.experience_years, skills)
       IN calls' = Append(calls, Call("run", "find_jobs", <<>>, criteria, jobs.items))
    /\ \/ \E e \in RunErrors : FindJobsExcept(e)
       \/ \E content \in Contents :
            /\ job_results' = content
            /\ fj_path' = "narrative"
            /\ pc' = "find_jobs_returned"
            /\ UNCHANGED <<jobs, exc>>
    /\ UNCHANGED <<env, widgets, session_state, button, firecrawl_key, openai_key,
                   display, industries, industry_trends, raw_response, it_path>>

(***************************************************************************)
(* JobHuntingAgent.get_industry_trends                                     *)
(***************************************************************************)
TrendsUrls(job_category) ==
    <<<<"https://www.payscale.com/research/US/Job=">>
          \o Replace(job_category, " ", "_") \o <<"/Salary">>,
      <<"https://www.glassdoor.com/Salaries/">>
          \o Replace(Lower(job_category), " ", "-")
          \o <<"-salary-SRCH_KO0,", ToString(CharLen(job_category)), ".htm">>>>

\* lines 195-196
ExtractedTrends(raw) ==
    IF Succeeded(raw) THEN DataGet(raw, "industry_trends") ELSE Returned(ListOf(<<>>))

\* line 198: `not industries`
NoIndustries(v) == ~Truthy(v)

\* lines 234-236
TrendsExcept(e) ==
    /\ exc' = Caught(e)
    /\ industry_trends' = Str(TrendsError(e))
    /\ it_path' = "except"
    /\ pc' = "get_industry_trends_returned"
    /\ UNCHANGED industries

\* lines 164-199 and 233: the extraction call and what follows from its outcome
TrendsExtract ==
    /\ pc = "get_industry_trends"
    /\ calls' = Append(calls, Call("extract", "get_industry_trends",
                                   TrendsUrls(widgets.job_category),
                                   <<widgets.job_category>>, <<>>))
    /\ \/ \E e \in ExtractErrors :
            /\ raw_response' = Unassigned
            /\ TrendsExcept(e)
       \/ \E raw \in ResponseShapes :
            /\ raw_response' = Assigned(raw)
            /\ LET got == ExtractedTrends(raw)
               IN IF got.raises THEN TrendsExcept(got.text)
                  ELSE IF NoIndustries(got.value)
                  THEN /\ industry_trends' = Str(NoTrendsMessage(widgets.job_category))
                       /\ it_path' = "no_data"
                       /\ pc' = "get_industry_trends_returned"
                       /\ UNCHANGED <<industries, exc>>
                  ELSE /\ industries' = got.value
                       /\ pc' = "get_industry_trends_run"
                       /\ UNCHANGED <<industry_trends, it_path, exc>>
    /\ UNCHANGED <<env, widgets, session_state, button, firecrawl_key, openai_key,
                   display, jobs, job_results, fj_path>>

\* lines 201-231: the model call and the return of its content
TrendsRun ==
    /\ pc = "get_industry_trends_run"
    /\ calls' = Append(calls, Call("run", "get_industry_trends", <<>>,
                                   <<widgets.job_category>>, industries.items))
    /\ \/ \E e \in RunErrors : TrendsExcept(e)
       \/ \E content \in Contents :
            /\ industry_trends' = content
            /\ it_path' = "narrative"
            /\ pc' = "get_industry_trends_returned"
            /\ UNCHANGED <<industries, exc>>
    /\ UNCHANGED <<env, widgets, session_state, button, firecrawl_key, openai_key,
                   display, jobs, job_results, raw_response, fj_path>>

(***************************************************************************)
(* create_job_agent and main                                               *)
(***************************************************************************)
\* lines 46-52
JobHuntingAgent(firecrawl_api_key, openai_api_key, model_id) ==
    [present |-> TRUE, firecrawl_api_key |-> firecrawl_api_key,
     openai_api_key |-> openai_api_key, model_id |-> model_id]

\* lines 238-245
create_job_agent(ss) ==
    IF ~ss.job_agent.present
    THEN [ss EXCEPT !.job_agent =
              JobHuntingAgent(ss.firecrawl_key, ss.openai_key, ss.model_id)]
    ELSE ss

\* lines 296-297
EffectiveFirecrawlKey(w) == Or(w.firecrawl_key, Getenv("FIRECRAWL_API_KEY", ""))

EffectiveOpenaiKey(w) == Or(w.openai_key, Getenv("OPENAI_API_KEY", ""))

\* lines 269 and 299-302: what the sidebar writes to st.session_state
Sidebar(w) ==
    LET fk == EffectiveFirecrawlKey(w)
        ok == EffectiveOpenaiKey(w)
        ss == [session_state EXCEPT !.model_id = w.model_id]
    IN IF fk # "" /\ ok # ""
       THEN create_job_agent([ss EXCEPT !.firecrawl_key = fk, !.openai_key = ok])
       ELSE ss

MissingKeysWarning(missing_keys) ==
    El("warning", <<"Missing", "required", "API", "keys:">> \o Join(missing_keys, <<",", " ">>))

\* lines 276-279 and 303-320: what the sidebar and the page header render
SidebarDisplay(w) ==
    LET fk == EffectiveFirecrawlKey(w)
        ok == EffectiveOpenaiKey(w)
        missing_keys ==
            (IF fk = "" THEN <<<<"Firecrawl", "API", "Key">>>> ELSE <<>>)
            \o (IF ok = "" THEN <<<<"OpenAI", "API", "Key">>>> ELSE <<>>)
    IN (IF Getenv("FIRECRAWL_API_KEY", "") # ""
        THEN <<El("success", <<"Firecrawl", "API", "Key", "found", "in",
                                "environment", "variables">>)>>
        ELSE <<>>)
       \o (IF Getenv("OPENAI_API_KEY", "") # ""
           THEN <<El("success", <<"OpenAI", "API", "Key", "found", "in",
                                   "environment", "variables">>)>>
           ELSE <<>>)
       \o (IF fk # "" /\ ok # "" THEN <<>>
           ELSE <<MissingKeysWarning(missing_keys),
                  El("info", <<"Please", "provide", "the", "missing", "keys">>)>>)
       \o <<El("info", <<"Welcome", "to", "the", "AI", "Job", "Hunting", "Assistant!">>)>>

ApiKeysFirstError ==
    El("error", <<"Please", "enter", "your", "API", "keys", "in", "the", "sidebar", "first!">>)

TitleLocationError ==
    El("error", <<"Please", "enter", "both", "job", "title", "and", "location!">>)

NoSkillsWarning ==
    El("warning", <<"No", "skills", "provided.">>)

\* lines 247-383: one run of the script up to the call of find_jobs
RunScript(w, pressed) ==
    LET ss == Sidebar(w)
        shown == SidebarDisplay(w)
    IN /\ widgets' = w
       /\ session_state' = ss
       /\ button' = pressed
       /\ firecrawl_key' = EffectiveFirecrawlKey(w)
       /\ openai_key' = EffectiveOpenaiKey(w)
       /\ calls' = <<>>
       /\ jobs' = NullList
       /\ industries' = NullList
       /\ job_results' = None
       /\ industry_trends' = None
       /\ raw_response' = Unassigned
       /\ exc' = NoException
       /\ fj_path' = "none"
       /\ it_path' = "none"
       /\ IF ~pressed
          THEN display' = shown /\ pc' = "idle"
          ELSE IF ~ss.job_agent.present
          THEN display' = Append(shown, ApiKeysFirstError) /\ pc' = "idle"
          ELSE IF w.job_title = <<>> \/ w.location = <<>>
          THEN display' = Append(shown, TitleLocationError) /\ pc' = "idle"
          ELSE /\ display' = IF ParseSkills(w.skills_input) = <<>>
                             THEN Append(shown, NoSkillsWarning)
                             ELSE shown
               /\ pc' = "find_jobs"
       /\ UNCHANGED env

\* Faulty variant: main looks for a marker the orchestrators never write.
HasOtherMarker(text) == Contains(text, <<"Error:">>)

\* lines 393 and 405: `"An error occurred" in result`
HasErrorMarker(text) == Contains(text, Marker)

TypeErrorText ==
    <<"argument", "of", "type", "'", "NoneType", "'", "is", "not", "iterable">>

\* lines 412-421
MainExcept(error_message) ==
    <<El("error", <<"An", "error", "occurred:">> \o error_message),
      El("info",
         IF Contains(Lower(error_message), <<"website", "is", "no", "longer", "supported">>)
         THEN <<"Please", "contact", "Firecrawl", "support">>
         ELSE IF Contains(Lower(error_message), <<"api", "key">>)
         THEN <<"Please", "check", "that", "your", "API", "keys", "are", "correct">>
         ELSE <<"Please", "try", "again", "with", "different", "search", "parameters">>)>>

JobSearchCompleted == El("success", <<"Job", "search", "completed!">>)

IndustryAnalysisCompleted == El("success", <<"Industry", "analysis", "completed!">>)

\* lines 393-400: main renders what find_jobs returned
MainJobResults ==
    /\ pc = "find_jobs_returned"
    /\ IF ~job_results.isStr
       THEN /\ display' = display \o MainExcept(TypeErrorText)
            /\ pc' = "idle"
       ELSE IF HasErrorMarker(job_results.text)
       THEN /\ display' = Append(display, El("error", job_results.text))
            /\ pc' = "idle"
       ELSE /\ display' = display \o <<JobSearchCompleted,
                                       El("subheader", <<"Job", "Recommendations">>),
                                       El("markdown", job_results.text),
                                       El("divider", <<>>)>>
            /\ pc' = "get_industry_trends"
    /\ raw_response' = Unassigned
    /\ exc' = NoException
    /\ UNCHANGED <<env, widgets, session_state, button, firecrawl_key, openai_key,
                   calls, jobs, industries, job_results, industry_trends,
                   fj_path, it_path>>

\* lines 405-410: main renders what get_industry_trends returned
MainTrendResults ==
    /\ pc = "get_industry_trends_returned"
    /\ IF ~industry_trends.isStr
       THEN display' = display \o MainExcept(TypeErrorText)
       ELSE IF HasErrorMarker(industry_trends.text)
       THEN display' = Append(display, El("error", industry_trends.text))
       ELSE display' = display \o <<IndustryAnalysisCompleted,
                                    El("expander", widgets.job_category
                                                   \o <<"Industry", "Trends", "Analysis">>),
                                    El("markdown", industry_trends.text)>>
    /\ pc' = "idle"
    /\ raw_response' = Unassigned
    /\ exc' = NoException
    /\ UNCHANGED <<env, widgets, session_state, button, firecrawl_key, openai_key,
                   calls, jobs, industries, job_results, industry_trends,
                   fj_path, it_path>>

(***************************************************************************)
(* The user's interactions; each one reruns the script                     *)
(***************************************************************************)
PageLoad ==
    /\ pc = "load"
    /\ RunScript(widgets, FALSE)

SelectModel ==
    /\ pc = "idle"
    /\ \E v \in ModelOptions \ {widgets.model_id} :
           RunScript([widgets EXCEPT !.model_id = v], FALSE)

EnterFirecrawlKey ==
    /\ pc = "idle"
    /\ \E v \in FirecrawlKeyInputs \ {widgets.firecrawl_key} :
           RunScript([widgets EXCEPT !.firecrawl_key = v], FALSE)

EnterOpenaiKey ==
    /\ pc = "idle"
    /\ \E v \in OpenaiKeyInputs \ {widgets.openai_key} :
           RunScript([widgets EXCEPT !.openai_key = v], FALSE)

EnterJobTitle ==
    /\ pc = "idle"
    /\ \E v \in JobTitleInputs \ {widgets.job_title} :
           RunScript([widgets EXCEPT !.job_title = v], FALSE)

EnterLocation ==
    /\ pc = "idle"
    /\ \E v \in LocationInputs \ {widgets.location} :
           RunScript([widgets EXCEPT !.location = v], FALSE)

EnterExperience ==
    /\ pc = "idle"
    /\ \E v \in ExperienceInputs \ {widgets.experience_years} :
           RunScript([widgets EXCEPT !.experience_years = v], FALSE)

EnterSkills ==
    /\ pc = "idle"
    /\ \E v \in SkillsInputs \ {widgets.skills_input} :
           RunScript([widgets EXCEPT !.skills_input = v], FALSE)

SelectCategory ==
    /\ pc = "idle"
    /\ \E v \in CategoryOptions \ {widgets.job_category} :
           RunScript([widgets EXCEPT !.job_category = v], FALSE)

PressSearch ==
    /\ pc = "idle"
    /\ RunScript(widgets, TRUE)

(***************************************************************************)
(* Specification                                                           *)
(***************************************************************************)
Init ==
    /\ env \in EnvValues
    /\ widgets =
           [model_id |-> IF Getenv("OPENAI_MODEL_ID", "o3-mini") = "o3-mini"
                         THEN "o3-mini" ELSE "gpt-4o-mini",
            firecrawl_key |-> "",
            openai_key |-> "",
            job_title |-> <<>>,
            location |-> <<>>,
            experience_years |-> 2,
            skills_input |-> <<>>,
            job_category |-> <<"Information", " ", "Technology">>]
    /\ session_state =
           [model_id |-> Unset, firecrawl_key |-> Unset, openai_key |-> Unset,
            job_agent |-> NoAgent]
    /\ pc = "load"
    /\ button = FALSE
    /\ firecrawl_key = ""
    /\ openai_key = ""
    /\ display = <<>>
    /\ calls = <<>>
    /\ jobs = NullList
    /\ industries = NullList
    /\ job_results = None
    /\ industry_trends = None
    /\ raw_response = Unassigned
    /\ exc = NoException
    /\ fj_path = "none"
    /\ it_path = "none"

Next ==
    \/ PageLoad
    \/ SelectModel
    \/ EnterFirecrawlKey
    \/ EnterOpenaiKey
    \/ EnterJobTitle
    \/ EnterLocation
    \/ EnterExperience
    \/ EnterSkills
    \/ SelectCategory
    \/ PressSearch
    \/ FindJobsExtract
    \/ FindJobsRun
    \/ MainJobResults
    \/ TrendsExtract
    \/ TrendsRun
    \/ MainTrendResults

Spec == Init /\ [][Next]_vars

(***************************************************************************)
(* Properties                                                              *)
(***************************************************************************)
Range(q) == {q[i] : i \in 1..Len(q)}

RunCalls(fn) == {i \in 1..Len(calls) : calls[i].api = "run" /\ calls[i].fn = fn}

TrendCalls == {i \in 1..Len(calls) : calls[i].fn = "get_industry_trends"}

InFindJobs == pc \in {"find_jobs_run", "find_jobs_returned"}

InTrends == pc \in {"get_industry_trends_run", "get_industry_trends_returned"}

\* C1: find_jobs returns a string, which is the model's narrative, the fixed
\* no-results message or an error string carrying the marker.
C1_FindJobsReturnsString ==
    pc = "find_jobs_returned" =>
        /\ job_results.isStr
        /\ \/ fj_path = "narrative"
           \/ job_results = Str(NoJobsMessage)
           \/ HasErrorMarker(job_results.text)

\* C2: after an extraction response with success = false the orchestrator is at
\* its return with its fixed no-data message and has made no model call.
C2_SuccessFalseNoModel ==
    (raw_response.assigned /\ raw_response.r.hasSuccess /\ ~raw_response.r.success) =>
        /\ InFindJobs =>
              /\ pc = "find_jobs_returned"
              /\ job_results = Str(NoJobsMessage)
              /\ RunCalls("find_jobs") = {}
        /\ InTrends =>
              /\ pc = "get_industry_trends_returned"
              /\ industry_trends = Str(NoTrendsMessage(widgets.job_category))
              /\ RunCalls("get_industry_trends") = {}

C2_Witness ==
    /\ pc = "get_industry_trends_returned"
    /\ raw_response.assigned
    /\ raw_response.r.hasSuccess
    /\ ~raw_response.r.success
    /\ raw_response.r.dataKey = "industry_trends"
    /\ Len(raw_response.r.list.items) > 0

\* C3: every model call is handed a non-empty list, and when the extracted
\* list is empty the orchestrator is at its return with its fixed message and
\* has made no model call.
C3_EmptyListNoModel ==
    /\ \A i \in 1..Len(calls) : calls[i].api = "run" => Len(calls[i].list) > 0
    /\ (InFindJobs /\ raw_response.assigned
            /\ ~ExtractedJobs(raw_response.r).raises
            /\ ExtractedJobs(raw_response.r).value.items = <<>>) =>
           /\ pc = "find_jobs_returned"
           /\ job_results = Str(NoJobsMessage)
           /\ RunCalls("find_jobs") = {}
    /\ (InTrends /\ raw_response.assigned
            /\ ~ExtractedTrends(raw_response.r).raises
            /\ ExtractedTrends(raw_response.r).value.items = <<>>) =>
           /\ pc = "get_industry_trends_returned"
           /\ industry_trends = Str(NoTrendsMessage(widgets.job_category))
           /\ RunCalls("get_industry_trends") = {}

C3_Witness ==
    /\ pc = "find_jobs_returned"
    /\ raw_response.assigned
    /\ Succeeded(raw_response.r)
    /\ raw_response.r.dataKey = "job_postings"
    /\ raw_response.r.list = ListOf(<<>>)

\* C4: when agent.run raised, the orchestrator is at its return with a string
\* that contains the marker and the text of the exception.
C4_ModelExceptionBecomesString ==
    (exc.caught /\ Len(calls) > 0 /\ calls[Len(calls)].api = "run") =>
        /\ InFindJobs =>
              /\ pc = "find_jobs_returned"
              /\ job_results.isStr
              /\ Contains(job_results.text, Marker)
              /\ Contains(job_results.text, exc.text)
        /\ InTrends =>
              /\ pc = "get_industry_trends_returned"
              /\ industry_trends.isStr
              /\ Contains(industry_trends.text, Marker)
              /\ Contains(industry_trends.text, exc.text)
        /\ InFindJobs \/ InTrends

C4_Witness ==
    /\ pc = "find_jobs_returned"
    /\ exc.caught
    /\ exc.text \in RunErrors
    /\ calls[Len(calls)].api = "run"

\* C5: the trend analysis starts only after find_jobs has returned on a path
\* other than its except clause with a result that has no marker, all its
\* provider calls come after all of find_jobs', and no trend call is made when
\* find_jobs ended in an error.
C5_TrendsAfterSuccessfulJobs ==
    /\ (TrendCalls # {} \/ InTrends \/ pc = "get_industry_trends") =>
           /\ fj_path \in {"narrative", "no_results"}
           /\ job_results.isStr
           /\ ~Contains(job_results.text, Marker)
           /\ \A i \in TrendCalls : \A j \in 1..Len(calls) :
                  calls[j].fn = "find_jobs" => j < i
    /\ (pc \in {"find_jobs", "find_jobs_run", "find_jobs_returned"} \/ fj_path = "except") =>
           TrendCalls = {}

C5_Witness ==
    /\ pc = "get_industry_trends_run"
    /\ Len(calls) = 3
    /\ calls[2].api = "run"
    /\ calls[2].fn = "find_jobs"
    /\ calls[3].fn = "get_industry_trends"

\* C6: in a script run in which the search button is pressed while the
\* effective Firecrawl key or OpenAI key is empty, neither orchestrator is
\* invoked and no provider call is made.
C6_MissingKeysBlockInvocation ==
    (button /\ (firecrawl_key = "" \/ openai_key = "")) =>
        /\ pc = "idle"
        /\ calls = <<>>
        /\ fj_path = "none"
        /\ it_path = "none"

ShapeDeviation(r, key) ==
    \/ ~r.isDict
    \/ ~r.hasSuccess
    \/ ~r.hasData
    \/ r.dataKey # key

\* C7: after an extraction response that is not a mapping, lacks the success
\* flag, lacks 'data' or lacks the named list, the orchestrator returns its
\* fixed message, without the marker, and makes no model call.
C7_ShapeDeviationIsEmptyList ==
    raw_response.assigned =>
        /\ (InFindJobs /\ ShapeDeviation(raw_response.r, "job_postings")) =>
              /\ pc = "find_jobs_returned"
              /\ job_results = Str(NoJobsMessage)
              /\ RunCalls("find_jobs") = {}
        /\ (InTrends /\ ShapeDeviation(raw_response.r, "industry_trends")) =>
              /\ pc = "get_industry_trends_returned"
              /\ industry_trends = Str(NoTrendsMessage(widgets.job_category))
              /\ RunCalls("get_industry_trends") = {}

\* C8 as stated: after an exception inside get_industry_trends the finished
\* action displays no job recommendations of that action.
C8_NoPartialSuccess ==
    (pc = "idle" /\ it_path = "except") =>
        /\ JobSearchCompleted \notin Range(display)
        /\ El("markdown", job_results.text) \notin Range(display)

\* C8 amended: an exception inside get_industry_trends is caught there and
\* ends the action with the trend error string in an error banner, below the
\* job recommendations of the same action, which stay displayed.
C8_TrendErrorBelowJobResults ==
    (pc = "idle" /\ it_path = "except") =>
        /\ industry_trends.isStr
        /\ display[Len(display)] = El("error", industry_trends.text)
        /\ Contains(industry_trends.text, Marker)
        /\ \E i \in 1..(Len(display) - 3) :
              /\ display[i] = JobSearchCompleted
              /\ display[i + 2] = El("markdown", job_results.text)
        /\ IndustryAnalysisCompleted \notin Range(display)

C8_Witness ==
    /\ pc = "idle"
    /\ it_path = "except"
    /\ fj_path = "narrative"
    /\ Len(calls) = 4

\* C9: main renders the result of an orchestrator as an error exactly when the
\* orchestrator returned through its except clause.
C9_MarkerClassifiesCorrectly ==
    /\ (fj_path # "none" /\ pc \notin {"find_jobs_run", "find_jobs_returned"}) =>
           (fj_path = "except" <=> JobSearchCompleted \notin Range(display))
    /\ (it_path # "none" /\ pc = "idle") =>
           (it_path = "except" <=> IndustryAnalysisCompleted \notin Range(display))

\* C10: the agent stored in session state is configured with the session's
\* current firecrawl_key, openai_key and model_id.
C10_AgentMatchesSession ==
    session_state.job_agent.present =>
        /\ session_state.job_agent.firecrawl_api_key = session_state.firecrawl_key
        /\ session_state.job_agent.openai_api_key = session_state.openai_key
        /\ session_state.job_agent.model_id = session_state.model_id

====
